---- MODULE Spec2Model ----
(***************************************************************************)
(* A model of the toy interpreter: the lexer (combinators.rs, lexer.rs),   *)
(* the symbol table (context.rs), the recursive-descent parser and the     *)
(* tree-walking evaluator (parser.rs) and the per-line driver (main.rs).   *)
(*                                                                         *)
(* A source line is a sequence of one-character strings.  An f32 is        *)
(* modelled as an exact rational [n, d] in lowest terms (d > 0), extended  *)
(* with +inf ([1,0]), -inf ([-1,0]) and NaN ([0,0]); the rounding of f32   *)
(* and the sign of zero are not represented.  A finite value whose         *)
(* numerator or denominator exceeds MaxMag leaves the model: the           *)
(* computation then ends with status "range" and the line is not taken.    *)
(* A Rust panic (integer remainder by zero or with overflow) ends a        *)
(* computation with status "panic".                                        *)
(***************************************************************************)
EXTENDS Integers, Sequences, FiniteSets, TLC

VARIABLES context, before, line, tokens, parsed, outcome, nlines, pc

vars == <<context, before, line, tokens, parsed, outcome, nlines, pc>>

\* ------------------------------------------------------------------ bounds

MaxMag == 10000
MaxLines == 3
MaxOperands == 3
MaxLiteral == 2
MaxText == 6

\* ------------------------------------------------------------------ f32

Abs(i) == IF i < 0 THEN -i ELSE i

Sgn(i) == IF i < 0 THEN -1 ELSE IF i = 0 THEN 0 ELSE 1

RECURSIVE Gcd(_, _)
Gcd(a, b) == IF b = 0 THEN a ELSE Gcd(b, a % b)

NaN == [n |-> 0, d |-> 0]
Inf(s) == [n |-> s, d |-> 0]
Num(i) == [n |-> i, d |-> 1]

IsNaN(v) == v.d = 0 /\ v.n = 0
IsInf(v) == v.d = 0 /\ v.n # 0
IsFinite(v) == v.d # 0

\* The rational n/d (d # 0) in lowest terms with a positive denominator.
Norm(n, d) ==
    LET g == Gcd(Abs(n), Abs(d))
        s == IF d < 0 THEN -1 ELSE 1
    IN [n |-> s * (n \div g), d |-> s * (d \div g)]

InRange(v) == Abs(v.n) <= MaxMag /\ v.d <= MaxMag

Done(v) == IF InRange(v) THEN [st |-> "ok", v |-> v] ELSE [st |-> "range", v |-> NaN]

Panic == [st |-> "panic", v |-> NaN]

FAdd(l, r) ==
    IF IsNaN(l) \/ IsNaN(r) THEN NaN
    ELSE IF IsInf(l) /\ IsInf(r) THEN (IF l.n = r.n THEN l ELSE NaN)
    ELSE IF IsInf(l) THEN l
    ELSE IF IsInf(r) THEN r
    ELSE Norm(l.n * r.d + r.n * l.d, l.d * r.d)

FNeg(v) == [n |-> -v.n, d |-> v.d]

FMul(l, r) ==
    IF IsNaN(l) \/ IsNaN(r) THEN NaN
    ELSE IF IsInf(l) \/ IsInf(r)
         THEN (IF l.n = 0 \/ r.n = 0 THEN NaN ELSE Inf(Sgn(l.n) * Sgn(r.n)))
    ELSE Norm(l.n * r.n, l.d * r.d)

FDiv(l, r) ==
    IF IsNaN(l) \/ IsNaN(r) THEN NaN
    ELSE IF IsInf(l) THEN (IF IsInf(r) THEN NaN
                           ELSE Inf(Sgn(l.n) * (IF r.n < 0 THEN -1 ELSE 1)))
    ELSE IF IsInf(r) THEN Num(0)
    ELSE IF r.n = 0 THEN (IF l.n = 0 THEN NaN ELSE Inf(Sgn(l.n)))
    ELSE Norm(l.n * r.d, l.d * r.n)

\* `x as i64`: truncation toward zero, NaN to 0, saturation at the ends.
\* The two ends are kept symbolic: "max" is 2^63 - 1 and "min" is -2^63.
AsI64(v) ==
    IF IsNaN(v) THEN [k |-> "fin", i |-> 0]
    ELSE IF IsInf(v) THEN [k |-> (IF v.n > 0 THEN "max" ELSE "min"), i |-> 0]
    ELSE [k |-> "fin", i |-> Sgn(v.n) * (Abs(v.n) \div v.d)]

\* 2^63 modulo m, as the cube of 2^21 so that no product leaves 32 bits.
Pow2Mod(m) == LET r == 2097152 % m IN (((r * r) % m) * r) % m

\* Rust's `%` on i64: the remainder has the sign of the dividend.
TruncRem(a, b) == Sgn(a) * (Abs(a) % Abs(b))

FMod(l, r) ==
    LET a == AsI64(l)
        b == AsI64(r)
    IN IF b.k = "fin" /\ b.i = 0 THEN Panic
       ELSE IF a.k = "min" /\ b.k = "fin" /\ b.i = -1 THEN Panic
       ELSE IF a.k = "fin" /\ b.k = "fin" THEN Done(Num(TruncRem(a.i, b.i)))
       ELSE IF a.k = "fin" THEN Done(Num(a.i))
       ELSE IF b.k = "fin"
            THEN (IF a.k = "max"
                  THEN Done(Num((Pow2Mod(Abs(b.i)) + Abs(b.i) - 1) % Abs(b.i)))
                  ELSE Done(Num(-Pow2Mod(Abs(b.i)))))
       ELSE IF a.k = b.k THEN Done(Num(0))
       ELSE IF a.k = "min" THEN Done(Num(-1))
       ELSE [st |-> "range", v |-> NaN]

\* Operator::eval
OpEval(op, l, r) ==
    CASE op = "Add" -> Done(FAdd(l, r))
      [] op = "Sub" -> Done(FAdd(l, FNeg(r)))
      [] op = "Mul" -> Done(FMul(l, r))
      [] op = "Div" -> Done(FDiv(l, r))
      [] op = "Mod" -> FMod(l, r)

\* ------------------------------------------------------------------ lexer

Letter == {"a", "b", "c", "d", "e", "f", "g", "h", "i", "j", "k", "l", "m",
           "n", "o", "p", "q", "r", "s", "t", "u", "v", "w", "x", "y", "z",
           "A", "B", "C", "D", "E", "F", "G", "H", "I", "J", "K", "L", "M",
           "N", "O", "P", "Q", "R", "S", "T", "U", "V", "W", "X", "Y", "Z"}

DigitVal == [c \in {"0", "1", "2", "3", "4", "5", "6", "7", "8", "9"} |->
               CASE c = "0" -> 0 [] c = "1" -> 1 [] c = "2" -> 2 [] c = "3" -> 3
                 [] c = "4" -> 4 [] c = "5" -> 5 [] c = "6" -> 6 [] c = "7" -> 7
                 [] c = "8" -> 8 [] c = "9" -> 9]

Digit == DOMAIN DigitVal

Whitespace == {" "}

\* The number of leading characters of s that belong to set.
RECURSIVE Span(_, _)
Span(s, set) ==
    IF s = <<>> \/ Head(s) \notin set THEN 0 ELSE 1 + Span(Tail(s), set)

Drop(s, k) == SubSeq(s, k + 1, Len(s))
Take(s, k) == SubSeq(s, 1, k)

trim_start(s) == Drop(s, Span(s, Whitespace))

starts_with(s, p) == Len(s) >= Len(p) /\ Take(s, Len(p)) = p

RECURSIVE Str(_)
Str(s) == IF s = <<>> THEN "" ELSE Head(s) \o Str(Tail(s))

\* ParseProgress::none / ParseProgress::some / Err
PNone(tail) == [st |-> "ok", some |-> FALSE, tok |-> [type |-> "None"], tail |-> tail]
PSome(tail, tok) == [st |-> "ok", some |-> TRUE, tok |-> tok, tail |-> tail]
PErr(st) == [st |-> st, some |-> FALSE, tok |-> [type |-> "None"], tail |-> <<>>]

\* The value of a string of decimal digits, and ten to the power k; both
\* stop growing beyond MaxMag, where the literal leaves the model.
RECURSIVE DigitsVal(_, _)
DigitsVal(s, acc) ==
    IF s = <<>> \/ acc > MaxMag THEN acc
    ELSE DigitsVal(Tail(s), 10 * acc + DigitVal[Head(s)])

RECURSIVE Pow10(_)
Pow10(k) == IF k = 0 THEN 1 ELSE IF k > 9 THEN MaxMag + 1 ELSE 10 * Pow10(k - 1)

\* str::parse::<f32> on a literal of digits with at most one '.'
ParseF32(literal) ==
    LET ip == Span(literal, Digit)
        fr == IF ip < Len(literal) THEN Drop(literal, ip + 1) ELSE <<>>
        digs == Take(literal, ip) \o fr
        scale == Pow10(Len(fr))
        mant == DigitsVal(digs, 0)
    IN IF digs = <<>> THEN [st |-> "err", v |-> NaN]
       ELSE IF scale > MaxMag \/ mant > MaxMag THEN [st |-> "range", v |-> NaN]
       ELSE Done(Norm(mant, scale))

number(src) ==
    LET first_not == Span(src, Digit \cup {"."})
        literal == Take(src, first_not)
        tail == Drop(src, first_not)
        dots == Cardinality({i \in 1..first_not : literal[i] = "."})
    IN IF first_not = 0 THEN PNone(src)
       ELSE IF dots > 1 THEN PErr("err")
       ELSE LET num == ParseF32(literal)
            IN IF num.st # "ok" THEN PErr(num.st)
               ELSE PSome(tail, num.v)

identifier(src) ==
    IF src = <<>> THEN PNone(src)
    ELSE IF Head(src) \in Letter \/ Head(src) = "_"
    THEN LET first_not == Span(src, Letter \cup Digit \cup {"_"})
         IN PSome(Drop(src, first_not), Str(Take(src, first_not)))
    ELSE PNone(src)

\* An assignment that takes the `=` of an arrow as well.
assignment_takes_arrow(src) ==
    LET id == identifier(src)
    IN IF ~id.some THEN PNone(src)
       ELSE LET tail == trim_start(id.tail)
            IN IF starts_with(tail, <<"=">>)
               THEN PSome(Drop(tail, 1), id.tok)
               ELSE PNone(src)

assignment(src) ==
    LET id == identifier(src)
    IN IF ~id.some THEN PNone(src)
       ELSE LET tail == trim_start(id.tail)
            IN IF starts_with(tail, <<"=">>) /\ ~starts_with(tail, <<"=", ">">>)
               THEN PSome(Drop(tail, 1), id.tok)
               ELSE PNone(src)

TId(name) == [type |-> "Id", name |-> name]
TNumber(v) == [type |-> "Number", val |-> v]
TOperator(op) == [type |-> "Operator", op |-> op]
TLBracket == [type |-> "LBracket"]
TRBracket == [type |-> "RBracket"]
TAssign(name) == [type |-> "Assign", name |-> name]
TFunc == [type |-> "Func"]

next_token(src) ==
    IF src = <<>> THEN PNone(<<>>)
    ELSE LET assign == assignment(src)
             id == identifier(src)
             num == number(src)
         IN IF assign.some THEN PSome(assign.tail, TAssign(assign.tok))
            ELSE IF id.some THEN PSome(id.tail, TId(id.tok))
            ELSE IF num.st # "ok" THEN PErr(num.st)
            ELSE IF num.some THEN PSome(num.tail, TNumber(num.tok))
            ELSE IF starts_with(src, <<"=", ">">>) THEN PSome(Drop(src, 2), TFunc)
            ELSE IF Head(src) = "+" THEN PSome(Drop(src, 1), TOperator("Add"))
            ELSE IF Head(src) = "-" THEN PSome(Drop(src, 1), TOperator("Sub"))
            ELSE IF Head(src) = "*" THEN PSome(Drop(src, 1), TOperator("Mul"))
            ELSE IF Head(src) = "/" THEN PSome(Drop(src, 1), TOperator("Div"))
            ELSE IF Head(src) = "%" THEN PSome(Drop(src, 1), TOperator("Mod"))
            ELSE IF Head(src) = "(" THEN PSome(Drop(src, 1), TLBracket)
            ELSE IF Head(src) = ")" THEN PSome(Drop(src, 1), TRBracket)
            ELSE PErr("err")

\* lexer::tokenize: toks are the tokens the iterator yields, st says whether
\* it ends at the end of the text ("ok") or with one last Err.
RECURSIVE tokenize(_)

\* One turn of the iterator's closure, on the result of next_token.
tokenize_step(progress) ==
    IF progress.st # "ok" THEN [st |-> progress.st, toks |-> <<>>]
    ELSE IF ~progress.some THEN [st |-> "ok", toks |-> <<>>]
    ELSE LET rest == tokenize(trim_start(progress.tail))
         IN [st |-> rest.st, toks |-> <<progress.tok>> \o rest.toks]

tokenize(src) == tokenize_step(next_token(src))

\* ------------------------------------------------------------------ context

\* enum Symbol
Variable(val) == [tag |-> "Variable", val |-> val]
FunctionSym(arity, expr) == [tag |-> "Function", arity |-> arity, expr |-> expr]
ArgumentSym(idx) == [tag |-> "Argument", idx |-> idx]

\* Context::new: the symbols map, a function from the bound names.
NewContext == [name \in {} |-> Variable(Num(0))]

Bound(ctx, name) == name \in DOMAIN ctx

Put(ctx, name, sym) ==
    [k \in DOMAIN ctx \cup {name} |-> IF k = name THEN sym ELSE ctx[k]]

\* Collecting into the HashMap lets a later entry replace an earlier one:
\* an argument replaces a function of its name, and of two arguments of
\* one name the later index stays.
\* A child context that inherits every symbol of the parent.
function_ctx_inherits_all(args, parent) ==
    LET argnames == {args[i] : i \in 1..Len(args)}
        last(k) == CHOOSE i \in 1..Len(args) :
                      args[i] = k /\ \A j \in 1..Len(args) : args[j] = k => j <= i
    IN [k \in DOMAIN parent \cup argnames |->
          IF k \in argnames THEN ArgumentSym(last(k) - 1) ELSE parent[k]]

function_ctx(args, parent) ==
    LET functions == {k \in DOMAIN parent : parent[k].tag = "Function"}
        argnames == {args[i] : i \in 1..Len(args)}
        last(k) == CHOOSE i \in 1..Len(args) :
                      args[i] = k /\ \A j \in 1..Len(args) : args[j] = k => j <= i
    IN [k \in functions \cup argnames |->
          IF k \in argnames THEN ArgumentSym(last(k) - 1) ELSE parent[k]]

update_var(ctx, var, val) ==
    IF Bound(ctx, var)
    THEN (IF ctx[var].tag = "Variable" THEN Put(ctx, var, Variable(val)) ELSE ctx)
    ELSE Put(ctx, var, Variable(val))

\* An update that replaces the body of an existing function, not its arity.
update_func_keeps_arity(ctx, func) ==
    IF Bound(ctx, func.name)
    THEN (IF ctx[func.name].tag = "Function"
          THEN Put(ctx, func.name, FunctionSym(ctx[func.name].arity, func.expr))
          ELSE ctx)
    ELSE Put(ctx, func.name, FunctionSym(func.arity, func.expr))

update_func(ctx, func) ==
    IF Bound(ctx, func.name)
    THEN (IF ctx[func.name].tag = "Function"
          THEN Put(ctx, func.name, FunctionSym(func.arity, func.expr))
          ELSE ctx)
    ELSE Put(ctx, func.name, FunctionSym(func.arity, func.expr))

is_var(ctx, var) == Bound(ctx, var) => ctx[var].tag = "Variable"

is_func(ctx, var) == Bound(ctx, var) => ctx[var].tag = "Function"

\* The typed accessors return an Option: has_* says whether it is Some.
has_var(ctx, var) == Bound(ctx, var) /\ ctx[var].tag = "Variable"
get_var(ctx, var) == ctx[var].val

has_arg(ctx, var) == Bound(ctx, var) /\ ctx[var].tag = "Argument"
get_arg(ctx, var) == ctx[var].idx

has_func(ctx, var) == Bound(ctx, var) /\ ctx[var].tag = "Function"
get_arity(ctx, var) == ctx[var].arity
get_func(ctx, var) == ctx[var].expr

\* ------------------------------------------------------------------ AST

Value(v) == [type |-> "Value", v |-> v]
Assign(var, val) == [type |-> "Assign", var |-> var, val |-> val]
Argument(idx) == [type |-> "Argument", idx |-> idx]
OpExpr(op, left, right) == [type |-> "OpExpr", op |-> op, left |-> left, right |-> right]
CallExpr(func, args) == [type |-> "CallExpr", func |-> func, args |-> args]
Function(name, arity, expr) ==
    [type |-> "Function", name |-> name, arity |-> arity, expr |-> expr]
NoTree == [type |-> "None"]

\* self.op.eval(left, right) as the Option that OpExpr::value returns
value_of_eval(r) == [st |-> r.st, some |-> r.st = "ok", v |-> r.v]

\* AST::value: an Option<f32>; st is "panic" when Operator::eval panics.
RECURSIVE value(_)
value(t) ==
    IF t.type = "Value" THEN [st |-> "ok", some |-> TRUE, v |-> t.v]
    ELSE IF t.type = "OpExpr"
    THEN LET left == value(t.left)
             right == value(t.right)
         IN IF left.st # "ok" THEN left
            ELSE IF right.st # "ok" THEN right
            ELSE IF left.some /\ right.some
                 THEN value_of_eval(OpEval(t.op, left.v, right.v))
            ELSE [st |-> "ok", some |-> FALSE, v |-> NaN]
    ELSE [st |-> "ok", some |-> FALSE, v |-> NaN]

\* ------------------------------------------------------------------ parser

POk(tree, rest) == [st |-> "ok", tree |-> tree, rest |-> rest]
PFail(st) == [st |-> st, tree |-> NoTree, rest |-> <<>>]

\* Iterator::next on the token stream: past the end it stays at the end.
Next1(toks) == IF toks = <<>> THEN <<>> ELSE Tail(toks)

PeekIs(toks, type) == toks # <<>> /\ Head(toks).type = type

\* The operator node just built, replaced by a Value when it has one (val
\* is what result.value() returns).
\* A fold that keeps the operator node whatever its value.
FoldedBy_keeps_node(result, val, rest) ==
    IF val.st # "ok" THEN PFail(val.st) ELSE POk(result, rest)

FoldedBy(result, val, rest) ==
    IF val.st # "ok" THEN PFail(val.st)
    ELSE IF val.some THEN POk(Value(val.v), rest)
    ELSE POk(result, rest)

Folded(op, left, right, rest) ==
    FoldedBy(OpExpr(op, left, right), value(OpExpr(op, left, right)), rest)

\* A lookahead that takes any operator for a multiplicative one.
get_next_any_operator(toks) == PeekIs(toks, "Operator")

get_next_multiplicative(toks) ==
    PeekIs(toks, "Operator") /\ Head(toks).op \in {"Mul", "Div", "Mod"}

get_next_additive(toks) ==
    PeekIs(toks, "Operator") /\ Head(toks).op \in {"Add", "Sub"}

RECURSIVE Terminal_parse(_, _), MulLoop(_, _, _), AddLoop(_, _, _)
RECURSIVE CallExpr_parse(_, _), CallArgs(_, _, _, _, _)

\* `let mut result = ...?` and each later `result = ...`: the loop goes on
\* from the tree and the position of r, unless r is an Err.
MulFrom(r, ctx) == IF r.st # "ok" THEN r ELSE MulLoop(r.tree, r.rest, ctx)

parse_multiplicative(toks, ctx) == MulFrom(Terminal_parse(toks, ctx), ctx)

\* One turn of the while loop, right being the parse of the right operand.
MulStep(op, result, right, ctx) ==
    IF right.st # "ok" THEN right
    ELSE MulFrom(Folded(op, result, right.tree, right.rest), ctx)

\* The while loop of parse_multiplicative, result being the tree so far.
MulLoop(result, toks, ctx) ==
    IF ~get_next_multiplicative(toks) THEN POk(result, toks)
    ELSE MulStep(Head(toks).op, result, Terminal_parse(Tail(toks), ctx), ctx)

AddFrom(r, ctx) == IF r.st # "ok" THEN r ELSE AddLoop(r.tree, r.rest, ctx)

parse_additive(toks, ctx) == AddFrom(parse_multiplicative(toks, ctx), ctx)

AddStep(op, result, right, ctx) ==
    IF right.st # "ok" THEN right
    ELSE AddFrom(Folded(op, result, right.tree, right.rest), ctx)

\* The while loop of parse_additive.
AddLoop(result, toks, ctx) ==
    IF ~get_next_additive(toks) THEN POk(result, toks)
    ELSE AddStep(Head(toks).op, result, parse_multiplicative(Tail(toks), ctx), ctx)

OpExpr_parse(toks, ctx) == parse_additive(toks, ctx)

\* The LBracket arm once OpExpr::parse has returned expr.
Terminal_bracket(expr) ==
    IF expr.st # "ok" THEN expr
    ELSE IF PeekIs(expr.rest, "RBracket") THEN POk(expr.tree, Tail(expr.rest))
    ELSE PFail("err")

\* The Assign arm once CallExpr::parse has returned expr.
Terminal_assign(var, expr) ==
    IF expr.st # "ok" THEN expr ELSE POk(Assign(var, expr.tree), expr.rest)

Terminal_parse(toks, ctx) ==
    IF toks = <<>> THEN PFail("err")
    ELSE LET tok == Head(toks)
             rest == Tail(toks)
         IN CASE tok.type = "Number" -> POk(Value(tok.val), rest)
              [] tok.type = "LBracket" ->
                   \* a second tokens.next() drops the token after the bracket
                   Terminal_bracket(OpExpr_parse(Next1(rest), ctx))
              [] tok.type = "Assign" ->
                   IF is_var(ctx, tok.name)
                   THEN Terminal_assign(tok.name, CallExpr_parse(rest, ctx))
                   ELSE PFail("err")
              [] tok.type = "Id" ->
                   IF has_var(ctx, tok.name) THEN POk(Value(get_var(ctx, tok.name)), rest)
                   ELSE IF has_arg(ctx, tok.name)
                        THEN POk(Argument(get_arg(ctx, tok.name)), rest)
                   ELSE PFail("err")
              [] OTHER -> PFail("err")

CallExpr_get_func(toks, ctx) == PeekIs(toks, "Id") /\ is_func(ctx, Head(toks).name)

CallExpr_parse(toks, ctx) ==
    IF CallExpr_get_func(toks, ctx)
    THEN LET name == Head(toks).name
             arity == IF has_func(ctx, name) THEN get_arity(ctx, name) ELSE 0
         IN IF ~has_func(ctx, name) THEN PFail("err")
            ELSE CallArgs(get_func(ctx, name), arity, <<>>, Tail(toks), ctx)
    ELSE OpExpr_parse(toks, ctx)

\* One turn of the for loop, arg being the parse of the argument.
CallArg(func, todo, args, arg, ctx) ==
    IF arg.st # "ok" THEN arg
    ELSE CallArgs(func, todo - 1, Append(args, arg.tree), arg.rest, ctx)

\* The for loop of CallExpr::parse reading `todo` more arguments; the node
\* is built over the callee's body as the context holds it now.
CallArgs(func, todo, args, toks, ctx) ==
    IF todo = 0 THEN POk(CallExpr(func, args), toks)
    ELSE CallArg(func, todo, args, CallExpr_parse(toks, ctx), ctx)

\* The names of the leading Id tokens: what repeated Function::get_id reads.
RECURSIVE get_ids(_)
get_ids(toks) ==
    IF PeekIs(toks, "Id") THEN <<Head(toks).name>> \o get_ids(Tail(toks)) ELSE <<>>

\* The end of Function::parse once CallExpr::parse has returned expr.
Function_body(name, arity, expr) ==
    IF expr.st # "ok" THEN expr ELSE POk(Function(name, arity, expr.tree), expr.rest)

Function_parse(toks, ctx) ==
    IF ~PeekIs(toks, "Id") THEN PFail("err")
    ELSE LET name == Head(toks).name
             args == get_ids(Tail(toks))
             after == Drop(toks, 1 + Len(args))
         IN IF ~is_func(ctx, name) THEN PFail("err")
            ELSE IF ~PeekIs(after, "Func") THEN PFail("err")
            ELSE Function_body(name, Len(args),
                               CallExpr_parse(Tail(after), function_ctx(args, ctx)))

\* Context::parse; rest is what the parse left unread, which the code drops.
Context_parse(ctx, toks) ==
    IF \E i \in 1..Len(toks) : toks[i] = TFunc
    THEN Function_parse(toks, ctx)
    ELSE CallExpr_parse(toks, ctx)

\* ------------------------------------------------------------------ evaluator

ESome(v, ctx) == [st |-> "ok", v |-> v, ctx |-> ctx]
ENone(ctx) == [st |-> "none", v |-> NaN, ctx |-> ctx]
EStop(st, ctx) == [st |-> st, v |-> NaN, ctx |-> ctx]

\* AST::evaluate: st "ok" is Some(v), "none" is None; ctx is the context
\* the call leaves behind.
RECURSIVE evaluate(_, _, _), EvalArgs(_, _, _, _)

\* One turn of the map-and-collect, arg being the value of the argument.
EvalArg(trees, arg, args, acc) ==
    IF arg.st # "ok" THEN [st |-> arg.st, vals |-> acc, ctx |-> arg.ctx]
    ELSE EvalArgs(trees, arg.ctx, args, Append(acc, arg.v))

\* The map-and-collect of CallExpr::evaluate: it stops at the first None.
EvalArgs(trees, ctx, args, acc) ==
    IF trees = <<>> THEN [st |-> "ok", vals |-> acc, ctx |-> ctx]
    ELSE EvalArg(Tail(trees), evaluate(Head(trees), ctx, args), args, acc)

\* Terminal::Assign once its subtree has given val.
evaluate_assign(var, val) ==
    IF val.st # "ok" THEN val ELSE ESome(val.v, update_var(val.ctx, var, val.v))

\* OpExpr::evaluate: Some(self.op.eval(left, right)), r being the eval.
evaluate_eval(r, ctx) == IF r.st # "ok" THEN EStop(r.st, ctx) ELSE ESome(r.v, ctx)

evaluate_right(op, left, right) ==
    IF right.st # "ok" THEN right
    ELSE evaluate_eval(OpEval(op, left.v, right.v), right.ctx)

evaluate_left(t, left, args) ==
    IF left.st # "ok" THEN left
    ELSE evaluate_right(t.op, left, evaluate(t.right, left.ctx, args))

\* CallExpr::evaluate once the arguments have given as.
evaluate_call(func, as) ==
    IF as.st # "ok" THEN EStop(as.st, as.ctx) ELSE evaluate(func, as.ctx, as.vals)

evaluate(t, ctx, args) ==
    CASE t.type = "Value" -> ESome(t.v, ctx)
      [] t.type = "Assign" -> evaluate_assign(t.var, evaluate(t.val, ctx, args))
      [] t.type = "Argument" ->
           IF t.idx < Len(args) THEN ESome(args[t.idx + 1], ctx) ELSE ENone(ctx)
      [] t.type = "OpExpr" -> evaluate_left(t, evaluate(t.left, ctx, args), args)
      [] t.type = "CallExpr" -> evaluate_call(t.func, EvalArgs(t.args, ctx, args, <<>>))
      [] t.type = "Function" -> ENone(update_func(ctx, t))

\* ------------------------------------------------------------------ driver

NoParse == PFail("none")

\* main.rs run, with what main prints for its result: kind "number" for
\* Ok(Some(val)), "void" for Ok(None), "error" for Err; "abort" when the
\* process panics.  kind "range" marks a line whose values leave the model.
Result(kind, val, ctx, toks, p) ==
    [kind |-> kind, val |-> val, ctx |-> ctx, toks |-> toks, parsed |-> p]

Kind(st) == IF st = "panic" THEN "abort" ELSE IF st = "range" THEN "range" ELSE "error"

\* Ok(tree.evaluate(context, &[])), e being the evaluation
run_evaluated(e, toks, p) ==
    IF e.st = "ok" THEN Result("number", e.v, e.ctx, toks, p)
    ELSE IF e.st = "none" THEN Result("void", NaN, e.ctx, toks, p)
    ELSE Result(Kind(e.st), NaN, e.ctx, toks, p)

\* A run that resolves the identifiers of the line once more after the
\* line's assignments have been made, and evaluates what that gives.
run_parsed_after_assignments(p, toks, ctx) ==
    IF p.st # "ok" THEN Result(Kind(p.st), NaN, ctx, toks, p)
    ELSE LET late == Context_parse(evaluate(p.tree, ctx, <<>>).ctx, toks)
         IN IF late.st # "ok" THEN run_evaluated(evaluate(p.tree, ctx, <<>>), toks, p)
            ELSE run_evaluated(evaluate(late.tree, ctx, <<>>), toks, late)

\* context.parse(tokens)?, p being the parse
run_parsed(p, toks, ctx) ==
    IF p.st # "ok" THEN Result(Kind(p.st), NaN, ctx, toks, p)
    ELSE run_evaluated(evaluate(p.tree, ctx, <<>>), toks, p)

\* context.parse(tokens)?.evaluate(context, &[]) on the collected tokens
run_tokens(toks, ctx) == run_parsed(Context_parse(ctx, toks), toks, ctx)

\* let tokens = tokens?, lexed being the collected Result
run_lexed(lexed, ctx) ==
    IF lexed.st # "ok" THEN Result(Kind(lexed.st), NaN, ctx, <<>>, NoParse)
    ELSE run_tokens(lexed.toks, ctx)

\* A run that feeds the parser the tokens as they are lexed, and so has
\* parsed and evaluated what precedes a lexical error when it meets it.
run_lazy_lexed(lexed, ctx) ==
    IF lexed.st = "ok" THEN run_tokens(lexed.toks, ctx)
    ELSE IF lexed.st = "err"
         THEN Result("error", NaN, run_tokens(lexed.toks, ctx).ctx, <<>>, NoParse)
    ELSE Result(Kind(lexed.st), NaN, ctx, <<>>, NoParse)

run_lazy_tokens(src, ctx) == run_lazy_lexed(tokenize(src), ctx)

run(src, ctx) == run_lexed(tokenize(src), ctx)

\* ------------------------------------------------------------------ session

\* The lines standard input may deliver, one per ReadLine.
Lines ==
    {
       <<"1", " ", "1">>,   \* 1 1
       <<"1", " ", "%", " ", "0">>,   \* 1 % 0
       <<"5", " ", "%", " ", "0", ".", "5">>,   \* 5 % 0.5
       <<"a", " ", "=", " ", "2">>,   \* a = 2
       <<"a", " ", "=", " ", "1", " ", "+">>,   \* a = 1 +
       <<"a", " ", "=", " ", "1", " ", "^">>,   \* a = 1 ^
       <<"1", " ", "+", " ", "a">>,   \* 1 + a
       <<"(", "1", ")">>,   \* (1)
       <<"(", "1", " ", "+", " ", "2", ")">>,   \* (1 + 2)
       <<"(", "1", " ", "2", ")">>,   \* (1 2)
       <<"f", " ", "x", " ", "y", " ", "=", ">", " ", "x", " ", "-", " ", "y">>,   \* f x y => x - y
       <<"f", " ", "3", " ", "1">>,   \* f 3 1
       <<"f", " ", "(", "3", ")", " ", "1">>,   \* f (3) 1
       <<"f", " ", "x", " ", "=", ">", " ", "1", " ", "%", " ", "x">>,   \* f x => 1 % x
       <<"f", " ", "0">>,   \* f 0
       <<"f", " ", "3">>,   \* f 3
       <<"g", " ", "=", ">", " ", "a">>,   \* g => a
       <<"g", " ", "a", " ", "=", ">", " ", "a">>,   \* g a => a
       <<"f", " ", "x", " ", "x", " ", "=", ">", " ", "x">>,   \* f x x => x
       <<"g", " ", "f", " ", "=", ">", " ", "f", " ", "2">>,   \* g f => f 2
       <<"g", " ", "1">>,   \* g 1
       <<"h", " ", "x", " ", "=", ">", " ", "g", " ", "=", " ", "x">>,   \* h x => g = x
       <<"g", " ", "=", ">", " ", "1">>,   \* g => 1
       <<"h", " ", "3">>,   \* h 3
       <<"1", " ", "+", " ", "z">>,   \* 1 + z
       <<"(", "z", " ", "1", ")">>,   \* (z 1)
       <<"g", " ", "=", " ", "5">>,   \* g = 5
       <<"(", "g", " ", "=", " ", "5", ")">>,   \* (g = 5)
       <<"1", " ", "+", " ", "a", " ", "=", " ", "2">>,   \* 1 + a = 2
       <<"1", "0", " ", "+", " ", "2">>,   \* 10 + 2
       <<"1", "2">>,   \* 12
       <<"f", " ", "a", " ", "=", " ", "3", " ", "a">>,   \* f a = 3 a
       <<"f", " ", "x", " ", "=", ">", " ", "f", " ", "x">>,   \* f x => f x
       <<"g", " ", "=", ">", " ", "1", " ", "g">>    \* g => 1 g
    }

NoOutcome == [kind |-> "none", val |-> NaN]

\* main: a fresh Context, nothing read yet.  before keeps the Context as
\* the last run received it, so that a state shows what the line changed.
Init ==
    /\ context = NewContext
    /\ before = NewContext
    /\ line = <<>>
    /\ tokens = <<>>
    /\ parsed = NoParse
    /\ outcome = NoOutcome
    /\ nlines = 0
    /\ pc = "idle"

\* stdin().lock().lines() yields the next line.  Not after a panic, which
\* ended the process; and not a line whose values leave the model.
ReadLine(l) ==
    /\ pc = "idle"
    /\ outcome.kind # "abort"
    /\ nlines < MaxLines
    /\ run(l, context).kind # "range"
    /\ line' = l
    /\ nlines' = nlines + 1
    /\ pc' = "read"
    /\ UNCHANGED <<context, before, tokens, parsed, outcome>>

\* The match on the result r of run, with the state run leaves.
Printed(r) ==
    /\ context' = r.ctx
    /\ tokens' = r.toks
    /\ parsed' = r.parsed
    /\ outcome' = [kind |-> r.kind, val |-> r.val]

\* The body of for_each: run on the line read, then the println of its result.
RunLine ==
    /\ pc = "read"
    /\ before' = context
    /\ Printed(run(line, context))
    /\ pc' = "idle"
    /\ UNCHANGED <<line, nlines>>

Next ==
    \/ \E l \in Lines : ReadLine(l)
    \/ RunLine

Spec == Init /\ [][Next]_vars

\* ------------------------------------------------------------------ operator expressions

DigitChar == <<"0", "1", "2", "3", "4", "5", "6", "7", "8", "9">>

OpChar == {"+", "-", "*", "/", "%"}

Literals == {<<DigitChar[i + 1]>> : i \in 0..MaxLiteral} \cup {<<"2", ".", "5">>}

\* The text `l1 o1 l2 ... ln` of the first n literals joined by operators.
RECURSIVE OpText(_, _, _)
OpText(lits, ops, n) ==
    IF n = 1 THEN lits[1]
    ELSE OpText(lits, ops, n - 1) \o <<" ", ops[n - 1], " ">> \o lits[n]

\* Two longer expressions, over literals of two digits.
LongLines ==
    {<<"1", "0", " ", "*", " ", "3", " ", "-", " ", "6", " ", "/", " ", "2">>,
     <<"1", "1", " ", "%", " ", "2", " ", "*", " ", "5", " ", "/", " ", "3">>}

\* A session whose one line is an operator expression over literals.
InitOps ==
    /\ context = NewContext
    /\ before = NewContext
    /\ \/ \E n \in 1..MaxOperands :
            \E lits \in [1..n -> Literals] :
               \E ops \in [1..(n - 1) -> OpChar] : line = OpText(lits, ops, n)
       \/ line \in LongLines
    /\ run(line, NewContext).kind # "range"
    /\ tokens = <<>>
    /\ parsed = NoParse
    /\ outcome = NoOutcome
    /\ nlines = 1
    /\ pc = "read"

NextOps == RunLine

SpecOps == InitOps /\ [][NextOps]_vars

\* ------------------------------------------------------------------ lexer session

TextChar == {"x", "_", "1", " ", "=", ">"}

\* The token iterator alone on a text of up to MaxText characters: line is
\* the iterator's src and tokens what it has yielded; pc is "end" once it
\* has returned None.
InitLex ==
    /\ context = NewContext
    /\ before = NewContext
    /\ \E n \in 0..MaxText : line \in [1..n -> TextChar]
    /\ tokenize(line).st # "range"
    /\ tokens = <<>>
    /\ parsed = NoParse
    /\ outcome = NoOutcome
    /\ nlines = 1
    /\ pc = "lex"

\* The closure of from_fn on the result of next_token.
Yield(progress) ==
    IF progress.st # "ok"
    THEN /\ line' = <<>>
         /\ outcome' = [kind |-> "error", val |-> NaN]
         /\ UNCHANGED <<tokens, pc>>
    ELSE /\ line' = trim_start(progress.tail)
         /\ tokens' = IF progress.some THEN Append(tokens, progress.tok) ELSE tokens
         /\ pc' = IF progress.some THEN "lex" ELSE "end"
         /\ UNCHANGED outcome

\* One call of the iterator's next.
NextToken ==
    /\ pc = "lex"
    /\ Yield(next_token(line))
    /\ UNCHANGED <<context, before, parsed, nlines>>

NextLex == NextToken

SpecLex == InitLex /\ [][NextLex]_vars

\* ------------------------------------------------------------------ reference values

Max(S) == CHOOSE i \in S : \A j \in S : j <= i
Min(S) == CHOOSE i \in S : \A j \in S : i <= j

\* The number of brackets open before position i.
DepthAt(toks, i) ==
    Cardinality({j \in 1..(i - 1) : toks[j].type = "LBracket"})
    - Cardinality({j \in 1..(i - 1) : toks[j].type = "RBracket"})

TopOps(toks, ops) ==
    {i \in 1..Len(toks) :
        toks[i].type = "Operator" /\ toks[i].op \in ops /\ DepthAt(toks, i) = 0}

Undef == [st |-> "undef", v |-> NaN]

\* The remainder of the integer truncations, by quotient and product.
RefApply(op, l, r) ==
    IF op = "Mod"
    THEN (IF IsFinite(l) /\ IsFinite(r) /\ Abs(r.n) >= r.d
          THEN LET tl == Sgn(l.n) * (Abs(l.n) \div l.d)
                   tr == Sgn(r.n) * (Abs(r.n) \div r.d)
                   q == Sgn(tl) * Sgn(tr) * (Abs(tl) \div Abs(tr))
               IN [st |-> "ok", v |-> Num(tl - q * tr)]
          ELSE Undef)
    ELSE LET x == CASE op = "Add" -> FAdd(l, r)
                    [] op = "Sub" -> FAdd(l, FNeg(r))
                    [] op = "Mul" -> FMul(l, r)
                    [] op = "Div" -> FDiv(l, r)
         IN IF InRange(x) THEN [st |-> "ok", v |-> x] ELSE Undef

\* The value of an arithmetic expression over literals by its grouping: it
\* splits at the last additive operator outside brackets, failing one at
\* the last multiplicative one, and opens a bracketed expression.
RECURSIVE RefVal(_)
RefVal(toks) ==
    LET adds == TopOps(toks, {"Add", "Sub"})
        muls == TopOps(toks, {"Mul", "Div", "Mod"})
        split(i) == LET l == RefVal(Take(toks, i - 1))
                        r == RefVal(Drop(toks, i))
                    IN IF l.st # "ok" \/ r.st # "ok" THEN Undef
                       ELSE RefApply(toks[i].op, l.v, r.v)
    IN IF adds # {} THEN split(Max(adds))
       ELSE IF muls # {} THEN split(Max(muls))
       ELSE IF Len(toks) = 1 /\ toks[1].type = "Number" THEN [st |-> "ok", v |-> toks[1].val]
       ELSE IF Len(toks) >= 3 /\ toks[1].type = "LBracket" /\ toks[Len(toks)].type = "RBracket"
            THEN RefVal(SubSeq(toks, 2, Len(toks) - 1))
       ELSE Undef

\* The values of a list of arguments, each a literal or a bracketed expression.
RECURSIVE RefArgs(_)
RefArgs(toks) ==
    IF toks = <<>> THEN [st |-> "ok", vals |-> <<>>]
    ELSE LET closes == {j \in 2..Len(toks) : DepthAt(toks, j + 1) = 0}
             n == IF toks[1].type = "Number" THEN 1
                  ELSE IF toks[1].type = "LBracket" /\ closes # {} THEN Min(closes)
                  ELSE 0
         IN IF n = 0 THEN [st |-> "undef", vals |-> <<>>]
            ELSE LET first == RefVal(Take(toks, n))
                     rest == RefArgs(Drop(toks, n))
                 IN IF first.st # "ok" \/ rest.st # "ok" THEN [st |-> "undef", vals |-> <<>>]
                    ELSE [st |-> "ok", vals |-> <<first.v>> \o rest.vals]

\* ------------------------------------------------------------------ claims

HasFunc(toks) == \E i \in 1..Len(toks) : toks[i] = TFunc

\* C1: when Context::parse has built its tree and tokens of the line are
\* left unread, the line ends in an error.
C1_TrailingTokensAreAnError ==
    (pc = "idle" /\ parsed.st = "ok" /\ parsed.rest # <<>>) => outcome.kind = "error"

\* C2: a line ends with a number, a void result or an error message; the
\* process never aborts.
C2_NoLineAbortsTheProcess ==
    outcome.kind \in {"none", "number", "void", "error"}

\* C3: a line for which run returns an error leaves the Context as run
\* received it.
C3_ErrorLeavesContextUnchanged ==
    (pc = "idle" /\ outcome.kind = "error") => context = before

\* A parse error after a well-formed assignment, in a session with bindings.
C3_Witness ==
    /\ pc = "idle"
    /\ outcome.kind = "error"
    /\ DOMAIN before # {}
    /\ \E i \in 1..Len(tokens) : tokens[i].type = "Assign"

\* C4: Terminal::parse on `(` E `)` yields the tree of E parsed alone and
\* reads through the `)`; when the token after E is not `)` it fails.
C4_BracketedExpressionParsesAsItsContent ==
    (pc = "idle" /\ PeekIs(tokens, "LBracket")) =>
        LET e == parse_additive(Tail(tokens), before)
            t == Terminal_parse(tokens, before)
        IN e.st = "ok" =>
             IF PeekIs(e.rest, "RBracket")
             THEN t = POk(e.tree, Tail(e.rest))
             ELSE t.st = "err"

\* C5: a line `f a0 ... a(n-1)` for a defined function f of n parameters
\* yields the value of f's body over the values of a0 ... a(n-1), in order.
C5_CallYieldsBodyOverArguments ==
    (pc = "idle" /\ PeekIs(tokens, "Id") /\ ~HasFunc(tokens)
       /\ has_func(before, Head(tokens).name)) =>
        LET f == Head(tokens).name
            as == RefArgs(Tail(tokens))
        IN (as.st = "ok" /\ Len(as.vals) = get_arity(before, f)) =>
             LET body == evaluate(get_func(before, f), before, as.vals)
             IN body.st = "ok" =>
                  outcome = [kind |-> "number", val |-> body.v]

\* The line is a definition that reaches function_ctx: a name that may be
\* a function, parameter names, the arrow.
ReachesFunctionCtx(toks, ctx) ==
    /\ HasFunc(toks)
    /\ PeekIs(toks, "Id")
    /\ is_func(ctx, Head(toks).name)
    /\ PeekIs(Drop(toks, 1 + Len(get_ids(Tail(toks)))), "Func")

Params(toks) == get_ids(Tail(toks))

ParamNames(toks) == {Params(toks)[i] : i \in 1..Len(Params(toks))}

BodyTokens(toks) == Drop(toks, 2 + Len(Params(toks)))

\* The context with the value of every variable changed.
OtherValues(ctx) ==
    [k \in DOMAIN ctx |->
        IF ctx[k].tag = "Variable"
        THEN Variable(IF ctx[k].val = Num(0) THEN Num(1) ELSE Num(0))
        ELSE ctx[k]]

\* The parse of a definition does not depend on the value of any variable.
BodySeesNoVariable ==
    ReachesFunctionCtx(tokens, before) =>
        parsed = Context_parse(OtherValues(before), tokens)

\* C6 as stated: the child context holds exactly the parent's functions
\* plus Argument(i) for the i-th parameter name, no variable, and the body
\* is parsed without the value of any outer variable.
C6_ChildContextIsFunctionsPlusArguments ==
    (pc = "idle" /\ ReachesFunctionCtx(tokens, before)) =>
        LET args == Params(tokens)
            child == function_ctx(args, before)
        IN /\ \A k \in DOMAIN before :
                 before[k].tag = "Function" => (Bound(child, k) /\ child[k] = before[k])
           /\ \A i \in 1..Len(args) :
                 Bound(child, args[i]) /\ child[args[i]] = ArgumentSym(i - 1)
           /\ \A k \in DOMAIN child :
                 \/ has_func(before, k) /\ child[k] = before[k]
                 \/ \E i \in 1..Len(args) : args[i] = k /\ child[k] = ArgumentSym(i - 1)
           /\ BodySeesNoVariable

\* C6 amended: the child context holds exactly the parent's functions whose
\* name is not a parameter name plus, for each parameter name, Argument(i)
\* for the last position i of that name, no variable, and the body is
\* parsed without the value of any outer variable.
C6_ChildContextShadowsByParameters ==
    (pc = "idle" /\ ReachesFunctionCtx(tokens, before)) =>
        LET args == Params(tokens)
            child == function_ctx(args, before)
            lastpos(k) == Max({i \in 1..Len(args) : args[i] = k})
        IN /\ DOMAIN child =
                 {k \in DOMAIN before : before[k].tag = "Function"} \cup ParamNames(tokens)
           /\ \A k \in DOMAIN child :
                 IF k \in ParamNames(tokens)
                 THEN child[k] = ArgumentSym(lastpos(k) - 1)
                 ELSE child[k] = before[k]
           /\ BodySeesNoVariable

\* A definition whose body names a variable of the session that is not a
\* parameter.
C6_Witness ==
    /\ pc = "idle"
    /\ ReachesFunctionCtx(tokens, before)
    /\ \E i \in 1..Len(BodyTokens(tokens)) :
          /\ BodyTokens(tokens)[i].type = "Id"
          /\ has_var(before, BodyTokens(tokens)[i].name)
          /\ BodyTokens(tokens)[i].name \notin ParamNames(tokens)

\* The Call nodes a parse built: those of the tree, the arguments included,
\* not those inside the bodies the nodes refer to.
RECURSIVE CallsOf(_)
CallsOf(t) ==
    CASE t.type = "Assign" -> CallsOf(t.val)
      [] t.type = "OpExpr" -> CallsOf(t.left) \cup CallsOf(t.right)
      [] t.type = "CallExpr" ->
           {t} \cup UNION {CallsOf(t.args[i]) : i \in 1..Len(t.args)}
      [] t.type = "Function" -> CallsOf(t.expr)
      [] OTHER -> {}

\* C7: a definition of an existing function leaves the Context with the new
\* arity and the new body together, and a call parsed in a later line takes
\* the number of arguments and the body the Context then holds for the name.
C7_RedefinitionReplacesArityAndBody ==
    (pc = "idle" /\ parsed.st = "ok") =>
        /\ (parsed.tree.type = "Function" /\ has_func(before, parsed.tree.name)) =>
              /\ Bound(context, parsed.tree.name)
              /\ context[parsed.tree.name] =
                    FunctionSym(parsed.tree.arity, parsed.tree.expr)
        /\ (~HasFunc(tokens) /\ PeekIs(tokens, "Id") /\ has_func(before, Head(tokens).name)) =>
              /\ parsed.tree.type = "CallExpr"
              /\ parsed.tree.func = get_func(before, Head(tokens).name)
              /\ Len(parsed.tree.args) = get_arity(before, Head(tokens).name)
        /\ \A c \in CallsOf(parsed.tree) :
              \E k \in DOMAIN before :
                 /\ has_func(before, k)
                 /\ c.func = get_func(before, k)
                 /\ Len(c.args) = get_arity(before, k)

\* A definition of a function that had another number of parameters.
C7_Witness ==
    /\ pc = "idle"
    /\ parsed.st = "ok"
    /\ parsed.tree.type = "Function"
    /\ has_func(before, parsed.tree.name)
    /\ get_arity(before, parsed.tree.name) # parsed.tree.arity
    /\ get_arity(context, parsed.tree.name) = parsed.tree.arity

\* The Assign node evaluated last in a line, if there is one: the root, or
\* the body of the call at the root.
RECURSIVE FinalAssign(_)
FinalAssign(t) ==
    CASE t.type = "Assign" -> <<t.var>>
      [] t.type = "CallExpr" -> FinalAssign(t.func)
      [] OTHER -> <<>>

\* C8: when an Assign node for n yields v, the evaluation returns v and n is
\* bound to Variable(v) right after it.
C8_AssignBindsItsValue ==
    (pc = "idle" /\ parsed.st = "ok" /\ outcome.kind = "number"
       /\ FinalAssign(parsed.tree) # <<>>) =>
        LET n == FinalAssign(parsed.tree)[1]
        IN has_var(context, n) /\ get_var(context, n) = outcome.val

IsOpExpression(toks) ==
    /\ Len(toks) % 2 = 1
    /\ \A i \in 1..Len(toks) :
          toks[i].type = (IF i % 2 = 1 THEN "Number" ELSE "Operator")

\* C9: an operator expression over literals parses to the value of its
\* grouping: multiplicative operators before additive ones, each level from
\* the left, `%` on the integer truncations of its operands.
C9_PrecedenceAndLeftGrouping ==
    (pc = "idle" /\ IsOpExpression(tokens)) =>
        LET ref == RefVal(tokens)
        IN ref.st = "ok" =>
             /\ parsed = POk(Value(ref.v), <<>>)
             /\ outcome = [kind |-> "number", val |-> ref.v]

\* An expression with a multiplicative operator after an additive one, and
\* one with `%` on an operand that is not an integer.
C9_Witness ==
    /\ pc = "idle"
    /\ IsOpExpression(tokens)
    /\ RefVal(tokens).st = "ok"
    /\ outcome.kind = "number"
    /\ \E i, j \in 1..Len(tokens) :
          /\ i < j
          /\ tokens[i].type = "Operator" /\ tokens[i].op \in {"Add", "Sub"}
          /\ tokens[j].type = "Operator" /\ tokens[j].op = "Mod"
          /\ tokens[j + 1].val.d # 1

\* The identifiers a line uses in an expression that the context of their
\* place does not bind: in a definition, those of the body against the
\* child context; otherwise those of the line against the Context.
UnboundIds(toks, ctx) ==
    IF ReachesFunctionCtx(toks, ctx)
    THEN {BodyTokens(toks)[i].name : i \in
             {j \in 1..Len(BodyTokens(toks)) :
                 /\ BodyTokens(toks)[j].type = "Id"
                 /\ ~Bound(function_ctx(Params(toks), ctx), BodyTokens(toks)[j].name)}}
    ELSE IF HasFunc(toks) THEN {}
    ELSE {toks[i].name : i \in
             {j \in 1..Len(toks) : toks[j].type = "Id" /\ ~Bound(ctx, toks[j].name)}}

\* C10: a line that uses an unbound identifier in an expression ends in a
\* parse error.
C10_UnboundIdentifierIsAnError ==
    (pc = "idle" /\ UnboundIds(tokens, before) # {}) => outcome.kind = "error"

\* The identifier a text starts with, if it starts with one, and the text
\* after that identifier and the whitespace that follows it.
IdChar == Letter \cup Digit \cup {"_"}
StartsWithId(src) == src # <<>> /\ Head(src) \in Letter \cup {"_"}
LeadingId(src) == Str(Take(src, Span(src, IdChar)))
AfterLeadingId(src) == trim_start(Drop(src, Span(src, IdChar)))
IsArrow(src) == starts_with(src, <<"=", ">">>)
IsEquals(src) == starts_with(src, <<"=">>) /\ ~IsArrow(src)

\* C11: a text `x`, optional whitespace, `=` not followed by `>` yields the
\* one token Assign(x) and goes on after the `=`; a text `x`, optional
\* whitespace, `=>` yields Id(x) and leaves the arrow, which is lexed next
\* as Func; a text starting with `=` that is not an arrow is a lexical error.
C11_AssignArrowAndBareEquals ==
    [][pc = "lex" =>
         /\ (StartsWithId(line) /\ IsEquals(AfterLeadingId(line))) =>
               /\ tokens' = Append(tokens, TAssign(LeadingId(line)))
               /\ line' = trim_start(Drop(AfterLeadingId(line), 1))
               /\ outcome' = outcome
         /\ (StartsWithId(line) /\ IsArrow(AfterLeadingId(line))) =>
               /\ tokens' = Append(tokens, TId(LeadingId(line)))
               /\ line' = AfterLeadingId(line)
               /\ next_token(line') = PSome(Drop(line', 2), TFunc)
               /\ outcome' = outcome
         /\ IsEquals(line) =>
               /\ tokens' = tokens
               /\ outcome'.kind = "error"]_vars

\* `x=x=>=` and its like: an Assign, then an Id with its arrow as Func, then
\* the error of a bare `=`.
C11_Witness ==
    /\ outcome.kind = "error"
    /\ Len(tokens) = 3
    /\ tokens[1].type = "Assign"
    /\ tokens[2].type = "Id"
    /\ tokens[3] = TFunc

\* The names a line assigns to: those of its Assign tokens.
AssignTargets(toks) == {toks[i].name : i \in {j \in 1..Len(toks) : toks[j].type = "Assign"}}

IsFunctionIn(ctx, name) == Bound(ctx, name) /\ ctx[name].tag = "Function"

\* C12: a line leaves every bound name its tag and binds no name as
\* Argument; a line that is not a definition leaves every Function its arity
\* and body, whatever it assigns; and a line with an assignment to a name
\* that is a Function when the line is parsed is rejected.
C12_TagsAreFixedAndFunctionsUnassignable ==
    pc = "idle" =>
       /\ \A name \in DOMAIN before :
             Bound(context, name) /\ context[name].tag = before[name].tag
       /\ \A name \in DOMAIN context : context[name].tag # "Argument"
       /\ (parsed.st = "ok" /\ parsed.tree.type # "Function") =>
             \A name \in DOMAIN before :
                before[name].tag = "Function" => context[name] = before[name]
       /\ (~HasFunc(tokens)
           /\ \E name \in AssignTargets(tokens) : IsFunctionIn(before, name)) =>
             outcome.kind \notin {"number", "void"}

\* The part of C12 on the symbols alone, without the rejection of the line.
TagsAreFixed ==
    pc = "idle" =>
       /\ \A name \in DOMAIN before :
             Bound(context, name) /\ context[name].tag = before[name].tag
       /\ \A name \in DOMAIN context : context[name].tag # "Argument"
       /\ (parsed.st = "ok" /\ parsed.tree.type # "Function") =>
             \A name \in DOMAIN before :
                before[name].tag = "Function" => context[name] = before[name]

\* The rejection alone, for a line that starts with the assignment.
LeadingAssignToFunctionIsRejected ==
    (pc = "idle" /\ tokens # <<>> /\ tokens[1].type = "Assign"
       /\ IsFunctionIn(before, tokens[1].name)) =>
       (outcome.kind = "error" /\ context = before)

\* The nodes of a tree, the bodies its calls are bound to included.
RECURSIVE Nodes(_)
Nodes(t) ==
    {t} \cup
    CASE t.type = "Assign" -> Nodes(t.val)
      [] t.type = "OpExpr" -> Nodes(t.left) \cup Nodes(t.right)
      [] t.type = "CallExpr" ->
           Nodes(t.func) \cup UNION {Nodes(t.args[i]) : i \in 1..Len(t.args)}
      [] t.type = "Function" -> Nodes(t.expr)
      [] OTHER -> {}

\* An operator node whose operands both report a value.
IsStaticOp(t) == t.type = "OpExpr" /\ value(t.left).some /\ value(t.right).some

\* Only numbers, operators and identifiers that are variables of ctx.
OnlyLiteralsAndVariables(toks, ctx) ==
    /\ toks # <<>>
    /\ \A i \in 1..Len(toks) :
          \/ toks[i].type \in {"Number", "Operator"}
          \/ toks[i].type = "Id" /\ has_var(ctx, toks[i].name)

HasBracket(toks) == \E i \in 1..Len(toks) : toks[i].type \in {"LBracket", "RBracket"}

\* The tokens the parse p has read.
Consumed(toks, p) == Take(toks, Len(toks) - Len(p.rest))

\* The operators of a line that stand right before an assignment or next
\* to an identifier that is a parameter of the definition the line makes.
OpsOnDynamicOperands(toks) ==
    {toks[i].op : i \in {j \in 1..(Len(toks) - 1) :
        /\ toks[j].type = "Operator"
        /\ \/ toks[j + 1].type = "Assign"
           \/ /\ HasFunc(toks)
              /\ j > 1
              /\ \E k \in {j - 1, j + 1} :
                    toks[k].type = "Id" /\ toks[k].name \in ParamNames(toks)}}

\* C13: a tree the parser returns has no operator node whose operands both
\* report a value; a line of literals and known variables parses to one
\* Value node, `10 + 2` to the node of `12`; and in a line without brackets
\* an operator on an assignment or on a parameter stays an operator node.
C13_StaticOperatorsAreFolded ==
    (pc = "idle" /\ parsed.st = "ok") =>
       /\ \A t \in Nodes(parsed.tree) : ~IsStaticOp(t)
       /\ \A name \in DOMAIN context :
             context[name].tag = "Function" =>
                \A t \in Nodes(context[name].expr) : ~IsStaticOp(t)
       /\ OnlyLiteralsAndVariables(tokens, before) => parsed.tree.type = "Value"
       /\ tokens = <<TNumber(Num(10)), TOperator("Add"), TNumber(Num(2))>> =>
             parsed.tree = Value(Num(12))
       /\ ~HasBracket(tokens) =>
             \A op \in OpsOnDynamicOperands(Consumed(tokens, parsed)) :
                \E t \in Nodes(parsed.tree) : t.type = "OpExpr" /\ t.op = op

\* A line with an operator on a literal and a known variable, read to its
\* end and folded to one node.
C13_Witness ==
    /\ pc = "idle"
    /\ parsed.st = "ok"
    /\ OnlyLiteralsAndVariables(tokens, before)
    /\ \E i \in 1..Len(tokens) : tokens[i].type = "Id"
    /\ \E i \in 1..Len(tokens) : tokens[i].type = "Operator"
    /\ parsed.rest = <<>>
    /\ parsed.tree.type = "Value"

\* The tokens with every identifier that is a variable of ctx replaced by
\* the number it holds there.
Substituted(toks, ctx) ==
    [i \in 1..Len(toks) |->
        IF toks[i].type = "Id" /\ has_var(ctx, toks[i].name)
        THEN TNumber(get_var(ctx, toks[i].name))
        ELSE toks[i]]

\* What an evaluation returns, without the context it leaves.
Returned(e) == [st |-> e.st, v |-> e.v]

ArgValues == {Num(0), Num(3)}

\* C14: a line that is not a definition parses to the tree of the line with
\* its known variables written as their values, also after an assignment to
\* them earlier in the line; and a tree, be it the line's or a stored body
\* over any arguments, returns the same in a context with other values of
\* the variables.
C14_VariablesAreReadAtParseTime ==
    (pc = "idle" /\ parsed.st = "ok") =>
       /\ ~HasFunc(tokens) =>
             LET subst == Context_parse(before, Substituted(tokens, before))
             IN subst.st = "ok" /\ subst.tree = parsed.tree
       /\ Returned(evaluate(parsed.tree, before, <<>>))
             = Returned(evaluate(parsed.tree, OtherValues(before), <<>>))
       /\ \A name \in DOMAIN context :
             context[name].tag = "Function" =>
                \A args \in [1..context[name].arity -> ArgValues] :
                   Returned(evaluate(context[name].expr, context, args))
                      = Returned(evaluate(context[name].expr, OtherValues(context), args))

\* `f a = 3 a` after `a = 2`: the line assigns a variable it refers to
\* later on, and is read to its end.
C14_Witness ==
    /\ pc = "idle"
    /\ parsed.st = "ok"
    /\ parsed.rest = <<>>
    /\ ~HasFunc(tokens)
    /\ outcome.kind = "number"
    /\ \E i, j \in 1..Len(tokens) :
          /\ i < j
          /\ tokens[i].type = "Assign"
          /\ tokens[j] = TId(tokens[i].name)
          /\ has_var(before, tokens[i].name)
          /\ get_var(context, tokens[i].name) # get_var(before, tokens[i].name)

\* The longest chain of calls in a tree, each call leading into the body
\* it is bound to or into one of its arguments.
RECURSIVE CallDepth(_)
CallDepth(t) ==
    CASE t.type = "Assign" -> CallDepth(t.val)
      [] t.type = "OpExpr" -> Max({CallDepth(t.left), CallDepth(t.right)})
      [] t.type = "CallExpr" ->
           1 + Max({CallDepth(t.func)} \cup {CallDepth(t.args[i]) : i \in 1..Len(t.args)})
      [] t.type = "Function" -> CallDepth(t.expr)
      [] OTHER -> 0

\* A definition line whose body names the function it defines.
DefinesWithSelfReference(toks) ==
    /\ HasFunc(toks)
    /\ PeekIs(toks, "Id")
    /\ Head(toks).name \notin ParamNames(toks)
    /\ \E i \in 1..Len(BodyTokens(toks)) : BodyTokens(toks)[i] = TId(Head(toks).name)

\* Every stored body is a finite tree of calls, no deeper than the lines
\* run so far allow; and a line that starts with the name of a function
\* is a call bound to the body the Context held when the line was parsed.
CallsAreBoundWhenParsed ==
    pc = "idle" =>
       /\ \A name \in DOMAIN context :
             context[name].tag = "Function" => CallDepth(context[name].expr) < nlines
       /\ (parsed.st = "ok" /\ ~HasFunc(tokens) /\ PeekIs(tokens, "Id")
           /\ IsFunctionIn(before, Head(tokens).name)) =>
             /\ parsed.tree.type = "CallExpr"
             /\ parsed.tree.func = before[Head(tokens).name].expr
       /\ (parsed.st = "ok" /\ DefinesWithSelfReference(tokens)
           /\ IsFunctionIn(before, Head(tokens).name)
           /\ BodyTokens(tokens)[1] = TId(Head(tokens).name)) =>
             /\ parsed.tree.expr.type = "CallExpr"
             /\ parsed.tree.expr.func = before[Head(tokens).name].expr
             /\ context[Head(tokens).name].expr = parsed.tree.expr

\* The rejection alone, for a body that starts with the name being defined.
LeadingSelfReferenceIsRejected ==
    (pc = "idle" /\ DefinesWithSelfReference(tokens)
       /\ ~Bound(before, Head(tokens).name)
       /\ BodyTokens(tokens)[1] = TId(Head(tokens).name)) =>
       (outcome.kind = "error" /\ context = before)

\* C15: no stored body calls itself, directly or through others: a call is
\* bound to the body the Context holds when the call is parsed, the first
\* definition of a name is rejected when its body names it, and in a
\* redefinition the name stands for the body it had before.
C15_NoBodyCallsItself ==
    /\ CallsAreBoundWhenParsed
    /\ (pc = "idle" /\ DefinesWithSelfReference(tokens)
        /\ ~Bound(before, Head(tokens).name)) =>
          outcome.kind \notin {"number", "void"}

====
